---- MODULE Spec2Model ----
(***************************************************************************)
(* A model of the CloudEvents conversion engine                            *)
(* (cloudevents/conversion.py, cloudevents/abstract/event.py).             *)
(*                                                                         *)
(* Python values are records [t, s, n, m]: t is the Python type, s the     *)
(* text content of a str / bytes / int / datetime, n the number of a CBOR  *)
(* tag, m the members of a dict.  A str whose s is ObjText is the JSON     *)
(* rendering of the dict m.                                                *)
(***************************************************************************)
EXTENDS Integers, Sequences, FiniteSets, TLC

\* ------------------------------------------------------------ Python values

EmptyMap == [k \in {} |-> {}]

PyVal(t, s) == [t |-> t, s |-> s, n |-> 0, m |-> EmptyMap]
NoneV == PyVal("none", "")
Str(c) == PyVal("str", c)
Bytes(c) == PyVal("bytes", c)
Num(c) == PyVal("int", c)
ListV == PyVal("list", "[]")
Dict(f) == [t |-> "dict", s |-> "", n |-> 0, m |-> f]
\* a timezone-aware datetime.datetime, named by its isoformat()
Dt(c) == PyVal("datetime", c)
\* an enum.Enum member whose .value is the str c
EnumV(c) == PyVal("enum", c)

\* dict operations
Has(f, k) == k \in DOMAIN f
Get(f, k, default) == IF k \in DOMAIN f THEN f[k] ELSE default
Put(f, k, v) == [x \in DOMAIN f \cup {k} |-> IF x = k THEN v ELSE f[x]]
Pop(f, k) == [x \in DOMAIN f \ {k} |-> f[x]]
Update(f, g) == [x \in DOMAIN f \cup DOMAIN g |-> IF x \in DOMAIN g THEN g[x] ELSE f[x]]

\* ------------------------------------------------------------ json (stdlib)

\* text contents that are not JSON documents by themselves
PlainTexts == {"", "abc", "1"}
\* a byte string that is not valid UTF-8 (b'\xff')
NonUtf8 == "\\xff"
\* the text of a JSON object; its members are the value's m
ObjText == "{...}"
JsonInts == {"1"}

JsonQuote(c) == "\"" \o c \o "\""

RECURSIVE Serializable(_)
Serializable(v) ==
    \/ v.t \in {"none", "str", "int", "list"}
    \/ v.t = "dict" /\ \A k \in DOMAIN v.m : Serializable(v.m[k])

\* json.dumps(value): [err, v]; TypeError for bytes, datetime, enum, CBORTag
json_dumps(v) ==
    IF ~Serializable(v) THEN [err |-> "TypeError", v |-> v]
    ELSE [err |-> "",
          v |-> CASE v.t = "none" -> Str("null")
                  [] v.t = "str" -> Str(JsonQuote(v.s))
                  [] v.t = "int" -> Str(v.s)
                  [] v.t = "list" -> Str("[]")
                  [] v.t = "dict" -> [t |-> "str", s |-> ObjText, n |-> 0, m |-> v.m]]

\* json.loads(text): [err, v]
json_loads(x) ==
    IF x.t \notin {"str", "bytes"} THEN [err |-> "TypeError", v |-> x]
    ELSE IF x.t = "bytes" /\ x.s = NonUtf8 THEN [err |-> "UnicodeDecodeError", v |-> x]
    ELSE IF x.s = ObjText THEN [err |-> "", v |-> Dict(x.m)]
    ELSE IF x.s = "null" THEN [err |-> "", v |-> NoneV]
    ELSE IF x.s = "[]" THEN [err |-> "", v |-> ListV]
    ELSE IF x.s \in JsonInts THEN [err |-> "", v |-> Num(x.s)]
    ELSE IF \E c \in PlainTexts : x.s = JsonQuote(c)
         THEN [err |-> "", v |-> Str(CHOOSE c \in PlainTexts : x.s = JsonQuote(c))]
    ELSE [err |-> "JSONDecodeError", v |-> x]

\* base64.b64encode(bytes).decode("ascii") and base64.b64decode(str)
B64Table == {<<"", "">>, <<"abc", "YWJj">>, <<"1", "MQ==">>, <<NonUtf8, "/w==">>}
b64encode(c) == (CHOOSE p \in B64Table : p[1] = c)[2]
b64decode(c) == (CHOOSE p \in B64Table : p[2] = c)[1]

\* ------------------------------------------------------------ state

VARIABLES
    _obj_by_version,   \* the version registry: specversion -> handler type
    event,             \* the event in hand: [attrs, data]
    sent,              \* the call the value in hand comes from, "raw" if from elsewhere
    request,           \* the HTTP message in hand: [headers, body]
    result,            \* the outcome of the last call
    heap,              \* the dict objects alive: reference -> members
    obj,               \* an event object: [ref, data], its attributes are heap[ref]
    returned,          \* the reference of the dict in hand, 0 if none
    item,              \* the CBOR data item in hand
    before,            \* the attributes and payload of obj when the last call began
    pc,                \* per caller: the place of its call
    call,              \* per caller: the call it runs
    href,              \* per caller: the reference of its working handler, 0 if none
    handlers,          \* the working handlers alive: reference -> handler
    outcome            \* per caller: what its call returned

httpVars == <<event, request>>
dictVars == <<heap, obj, returned, item, before>>
concVars == <<pc, call, href, handlers, outcome>>
vars == <<_obj_by_version, sent, result, httpVars, dictVars, concVars>>

\* ------------------------------------------------------------ collaborators

\* the attribute names a version's working handler stores as fields of its own
CoreFields(version) ==
    IF version = "v1"
    THEN {"specversion", "id", "source", "type", "datacontenttype", "dataschema",
          "subject", "time"}
    ELSE {"specversion", "id", "source", "type", "datacontenttype",
          "datacontentencoding", "schemaurl", "subject", "time"}

\* event_handler(): a fresh working handler of the registered type
NewHandler(version) ==
    [version |-> version, fields |-> EmptyMap, data |-> NoneV,
     extensions |-> Dict(EmptyMap), err |-> ""]

\* handler.Set(name, value)
Set(h, name, value) ==
    IF h.err # "" THEN h
    ELSE IF name = "data" THEN [h EXCEPT !.data = value]
    ELSE IF name = "extensions" THEN [h EXCEPT !.extensions = value]
    ELSE IF name \in CoreFields(h.version)
         THEN [h EXCEPT !.fields = Put(h.fields, name, value)]
    ELSE IF h.extensions.t = "dict"
         THEN [h EXCEPT !.extensions = Dict(Put(h.extensions.m, name, value))]
    ELSE [h EXCEPT !.err = "AttributeError"]

RECURSIVE SetAll(_, _)
SetAll(h, f) ==
    IF DOMAIN f = {} THEN h
    ELSE LET k == CHOOSE k \in DOMAIN f : TRUE
         IN SetAll(Set(h, k, f[k]), Pop(f, k))

\* handler.Properties(): the fields that are set, with the data and
\* extensions placeholders
Properties(h) ==
    LET set == {k \in DOMAIN h.fields : h.fields[k] # NoneV}
        f == [k \in set |-> h.fields[k]]
        g == IF h.data = NoneV THEN f ELSE Put(f, "data", h.data)
    IN Put(g, "extensions", h.extensions)

\* str.lower() on the header names of the model
Lower(name) ==
    CASE name = "CE-SpecVersion" -> "ce-specversion"
      [] name = "Content-Type" -> "content-type"
      [] name = "ce-Ext" -> "ce-ext"
      [] OTHER -> name

AttrNames ==
    {"specversion", "id", "source", "type", "datacontenttype", "time", "ext", "Ext"}

\* is_binary(headers): a specversion-carrying header is present
is_binary(headers) == "ce-specversion" \in DOMAIN headers

\* ------------------------------------------------------------ marshallers

\* _best_effort_serialize_to_json
_best_effort_serialize_to_json(value) ==
    IF value = NoneV THEN NoneV
    ELSE IF json_dumps(value).err = "" THEN json_dumps(value).v
    ELSE value

\* _default_marshaller_by_format
_default_marshaller_by_format(format) ==
    IF format = "structured" THEN "identity" ELSE "json"

Marshal(marshaller, value) ==
    IF marshaller = "identity" THEN value ELSE _best_effort_serialize_to_json(value)

\* _json_or_string
_json_or_string(content) ==
    IF content = NoneV THEN NoneV
    ELSE IF json_loads(content).err = "" THEN json_loads(content).v
    ELSE content

Unmarshal(unmarshaller, content) ==
    IF unmarshaller = "identity" THEN content ELSE _json_or_string(content)

\* ------------------------------------------------------------ the renderer

\* marshaller.ToRequest(handler, structured): one JSON document
MarshalJSON(h, marshaller) ==
    LET props == Properties(h)
        data == Marshal(marshaller, Get(props, "data", NoneV))
        p1 == Pop(Pop(props, "data"), "extensions")
        p2 == IF ~Has(props, "data") THEN p1
              ELSE IF data.t = "bytes" THEN Put(p1, "data_base64", Str(b64encode(data.s)))
              ELSE Put(p1, "data", data)
        p3 == Update(p2, h.extensions.m)
        doc == json_dumps(Dict(p3))
    IN [err |-> doc.err,
        headers |-> [k \in {"content-type"} |-> Str("application/cloudevents+json")],
        body |-> doc.v]

\* marshaller.ToRequest(handler, binary): one header per attribute
MarshalBinary(h, marshaller) ==
    LET props == Properties(h)
        plain == DOMAIN props \ {"data", "extensions", "datacontenttype"}
        names == plain \cup DOMAIN h.extensions.m
        ce == [k \in {"ce-" \o x : x \in names} |->
                 LET x == CHOOSE x \in names : k = "ce-" \o x
                 IN IF x \in plain THEN props[x] ELSE h.extensions.m[x]]
        hdrs == IF Has(props, "datacontenttype")
                THEN Put(ce, "content-type", props["datacontenttype"])
                ELSE ce
    IN [err |-> "", headers |-> hdrs, body |-> Marshal(marshaller, h.data)]

ToRequest(h, format, marshaller) ==
    IF format = "structured" THEN MarshalJSON(h, marshaller)
    ELSE MarshalBinary(h, marshaller)

\* the structured decoder: every member of the document is set on the handler
UnmarshalJSON(h, body, unmarshaller) ==
    LET raw == json_loads(body).v.m
        attrs == [k \in DOMAIN raw \ {"data", "data_base64"} |-> raw[k]]
        h1 == SetAll(h, attrs)
        h2 == IF Has(raw, "data")
              THEN Set(h1, "data", Unmarshal(unmarshaller, json_dumps(raw["data"]).v))
              ELSE h1
    IN IF Has(raw, "data_base64")
       THEN Set(h2, "data", Unmarshal(unmarshaller, Bytes(b64decode(raw["data_base64"].s))))
       ELSE h2

\* the binary decoder: every ce- header is an attribute, the body is the payload
UnmarshalBinary(h, headers, body, unmarshaller) ==
    LET ce == {k \in DOMAIN headers : \E x \in AttrNames : k = "ce-" \o x}
        attrs == [x \in {y \in AttrNames : ("ce-" \o y) \in ce} |-> headers["ce-" \o x]]
        h1 == IF Has(headers, "content-type")
              THEN Set(h, "datacontenttype", headers["content-type"])
              ELSE h
    IN Set(SetAll(h1, attrs), "data", Unmarshal(unmarshaller, body))

FromRequest(h, headers, body, unmarshaller) ==
    IF is_binary(headers) THEN UnmarshalBinary(h, headers, body, unmarshaller)
    ELSE UnmarshalJSON(h, body, unmarshaller)

\* ------------------------------------------------------------ conversion.py

\* event_type.create(attributes, data): the outcome of a call that reached it
Created(op, attrs, data, decoded) ==
    [op |-> op, err |-> "", created |-> TRUE, attrs |-> attrs, data |-> data,
     decoded |-> decoded, unm |-> "none"]

\* the outcome of a call that raised
Raised(op, err) ==
    [op |-> op, err |-> err, created |-> FALSE, attrs |-> EmptyMap, data |-> NoneV,
     decoded |-> NoneV, unm |-> "none"]

\* from_http: a missing or empty body is the empty string
NormalizeBody(data) ==
    IF data = NoneV \/ data = Bytes("") THEN Str("") ELSE data

\* a body check that lets every type through: the fault C6_BodyType detects
AnyBodyType(data) == TRUE

\* from_http: isinstance(data, (str, bytes, bytearray))
IsTextOrBytes(data) == data.t \in {"str", "bytes"}

\* from_http: {key.lower(): value for key, value in headers.items()}
LowerKeys(headers) ==
    [k \in {Lower(h) : h \in DOMAIN headers} |->
        headers[CHOOSE h \in DOMAIN headers : Lower(h) = k]]

\* from_http: the specversion of the request, [err, v]
ExtractSpecversion(headers, data) ==
    IF is_binary(headers)
    THEN [err |-> "", v |-> Get(headers, "ce-specversion", NoneV)]
    ELSE LET raw_ce == json_loads(data)
         IN IF raw_ce.err = "JSONDecodeError"
            THEN [err |-> "MissingRequiredFields", v |-> NoneV]
            ELSE IF raw_ce.err # "" THEN [err |-> raw_ce.err, v |-> NoneV]
            ELSE IF raw_ce.v.t = "dict"
                 THEN [err |-> "", v |-> Get(raw_ce.v.m, "specversion", NoneV)]
            ELSE [err |-> "MissingRequiredFields", v |-> NoneV]

\* hash(key): a list or a dict is unhashable
Hashable(key) == key.t \notin {"list", "dict"}

\* key in _obj_by_version
InRegistry(key) == key.t = "str" /\ key.s \in DOMAIN _obj_by_version

\* an attribute map that leaves the extensions out: the fault C1_RoundTrip detects
CoreAttrsOnly(h) == Pop(Pop(Properties(h), "data"), "extensions")

\* from_http: the attributes of the decoded handler, extensions flattened
CollectAttrs(h) ==
    Update(Pop(Pop(Properties(h), "data"), "extensions"), h.extensions.m)

\* a normalisation that forgets empty bytes: the fault C8_EmptyPayloadIsNone detects
NormalizeTextOnly(data) == IF data = Str("") THEN NoneV ELSE data

\* from_http: an empty decoded payload is None
NormalizePayload(data) ==
    IF data = Str("") \/ data = Bytes("") THEN NoneV ELSE data

\* from_http, up to the registry lookup: [err, version, headers, body]
FromHttpPrologue(headers, data) ==
    LET body == NormalizeBody(data)
        hdrs == LowerKeys(headers)
        sv == ExtractSpecversion(hdrs, body)
        err == IF ~IsTextOrBytes(body) THEN "InvalidStructuredJSON"
               ELSE IF sv.err # "" THEN sv.err
               ELSE IF sv.v = NoneV THEN "MissingRequiredFields"
               ELSE IF ~Hashable(sv.v) THEN "TypeError"
               ELSE IF ~InRegistry(sv.v) THEN "InvalidRequiredFields"
               ELSE ""
    IN [err |-> err, version |-> IF err = "" THEN sv.v.s ELSE "",
        headers |-> hdrs, body |-> body]

\* from_http, from the decoded handler on
FromHttpEpilogue(h) ==
    IF h.err # "" THEN Raised("from_http", h.err)
    ELSE IF h.extensions.t # "dict" THEN Raised("from_http", "TypeError")
    ELSE Created("from_http", CollectAttrs(h), NormalizePayload(h.data), h.data)

\* data_unmarshaller, _json_or_string when none is given
UnmarshallerOf(data_unmarshaller) ==
    IF data_unmarshaller = "none" THEN "json_or_string" ELSE data_unmarshaller

from_http(headers, data, data_unmarshaller) ==
    LET p == FromHttpPrologue(headers, data)
    IN IF p.err # "" THEN Raised("from_http", p.err)
       ELSE FromHttpEpilogue(
                FromRequest(NewHandler(_obj_by_version[p.version]), p.headers, p.body,
                            UnmarshallerOf(data_unmarshaller)))

\* from_json: from_http with no headers
from_json(data, data_unmarshaller) ==
    [from_http(EmptyMap, data, data_unmarshaller) EXCEPT !.op = "from_json"]

\* the outcome of an encoding call
Rendered(err, headers, body) == [err |-> err, headers |-> headers, body |-> body]

\* data_marshaller, the default of the format when none is given
MarshallerOf(format, data_marshaller) ==
    IF data_marshaller = "none" THEN _default_marshaller_by_format(format)
    ELSE data_marshaller

\* _to_http, up to the registry lookup: the error raised, "" if none
ToHttpPrologue(e) ==
    IF ~Has(e.attrs, "specversion") THEN "KeyError"
    ELSE IF ~Hashable(e.attrs["specversion"]) THEN "TypeError"
    ELSE IF ~InRegistry(e.attrs["specversion"]) THEN "InvalidRequiredFields"
    ELSE ""

\* _to_http: the handler after every attribute and the payload are set
CopyEvent(h, e) == [SetAll(h, e.attrs) EXCEPT !.data = e.data]

\* _to_http, from the filled handler on
ToHttpEpilogue(h, format, marshaller) ==
    IF h.err # "" THEN Rendered(h.err, EmptyMap, NoneV)
    ELSE ToRequest(h, format, marshaller)

\* _to_http
_to_http(e, format, data_marshaller) ==
    IF ToHttpPrologue(e) # "" THEN Rendered(ToHttpPrologue(e), EmptyMap, NoneV)
    ELSE ToHttpEpilogue(
             CopyEvent(NewHandler(_obj_by_version[e.attrs["specversion"].s]), e),
             format, MarshallerOf(format, data_marshaller))

to_structured(e, data_marshaller) == _to_http(e, "structured", data_marshaller)

to_binary(e, data_marshaller) == _to_http(e, "binary", data_marshaller)

\* to_json: the body of to_structured
to_json(e, data_marshaller) ==
    [to_structured(e, data_marshaller) EXCEPT !.headers = EmptyMap]

\* ------------------------------------------------------------ dict and CBOR

\* a cbor2.CBORTag(n, c) whose value is the str c
CBORTag(n, c) == [t |-> "tag", s |-> c, n |-> n, m |-> EmptyMap]

\* best_effort_encode_attribute_value
best_effort_encode_attribute_value(value) ==
    IF value.t = "enum" THEN Str(value.s)
    ELSE IF value.t = "datetime" THEN Str(value.s)
    ELSE value

\* a from_dict that leaves "data" among the attributes: the fault
\* C2_DictRoundTrip detects
from_dict_keeping_data(d) ==
    Created("from_dict", [k \in DOMAIN d |-> best_effort_encode_attribute_value(d[k])],
            Get(d, "data", NoneV), NoneV)

\* from_dict
from_dict(d) ==
    LET attributes == [k \in DOMAIN d \ {"data"} |->
                          best_effort_encode_attribute_value(d[k])]
    IN Created("from_dict", attributes, Get(d, "data", NoneV), NoneV)

\* a reference no live object has
FreshRef(hp) == CHOOSE r \in 1..(Cardinality(DOMAIN hp) + 1) : r \notin DOMAIN hp

\* a to_dict that writes into the event's own attribute map and returns it:
\* the fault C7_SourceUnchanged detects
to_dict_in_place(hp, e) ==
    [heap |-> [hp EXCEPT ![e.ref] = Put(@, "data", e.data)], ref |-> e.ref]

\* to_dict: [heap, ref], ref the dict returned
to_dict(hp, e) ==
    LET ref == FreshRef(hp)
        members == [k \in DOMAIN hp[e.ref] |-> hp[e.ref][k]]
    IN [heap |-> Put(hp, ref, Put(members, "data", e.data)), ref |-> ref]

\* datetime.fromisoformat(text).isoformat(); the texts it accepts
IsoT == "2020-01-01T00:00:00+00:00"
IsoSpace == "2020-01-01 00:00:00+00:00"
IsoTable == {<<IsoT, IsoT>>, <<IsoSpace, IsoT>>}
IsIso(c) == \E p \in IsoTable : p[1] = c
fromisoformat(c) == Dt((CHOOSE p \in IsoTable : p[1] = c)[2])

\* _best_effort_decode_iso_formatted_time: the heap after it
_best_effort_decode_iso_formatted_time(hp, ref) ==
    LET time == Get(hp[ref], "time", NoneV)
    IN IF time.t = "str" /\ IsIso(time.s)
       THEN [hp EXCEPT ![ref] = Put(@, "time", fromisoformat(time.s))]
       ELSE hp

_WELL_KNOWN_URI_ATTRIBUTES == {"source", "dataschema"}
_URI_TAG == 32

\* _tag_well_known_uri_attributes: the heap after it
_tag_well_known_uri_attributes(hp, ref) ==
    [hp EXCEPT ![ref] =
        [k \in DOMAIN @ |->
            IF k \in _WELL_KNOWN_URI_ATTRIBUTES /\ @[k].t = "str"
            THEN CBORTag(_URI_TAG, @[k].s)
            ELSE @[k]]]

\* cbor2: what the encoder can encode
RECURSIVE Representable(_)
Representable(v) ==
    IF v.t = "dict" THEN \A k \in DOMAIN v.m : Representable(v.m[k])
    ELSE v.t # "enum"

\* cbor2: the data item of a value
RECURSIVE CborItem(_)
CborItem(v) ==
    CASE v.t = "none" -> [t |-> "null", s |-> "", n |-> 0, m |-> EmptyMap]
      [] v.t = "str" -> [t |-> "tstr", s |-> v.s, n |-> 0, m |-> EmptyMap]
      [] v.t = "bytes" -> [t |-> "bstr", s |-> v.s, n |-> 0, m |-> v.m]
      [] v.t = "int" -> [t |-> "uint", s |-> v.s, n |-> 0, m |-> EmptyMap]
      [] v.t = "list" -> [t |-> "array", s |-> v.s, n |-> 0, m |-> EmptyMap]
      [] v.t = "datetime" -> [t |-> "tagged", s |-> v.s, n |-> 0, m |-> EmptyMap]
      [] v.t = "tag" -> [t |-> "tagged", s |-> v.s, n |-> v.n, m |-> EmptyMap]
      [] v.t = "dict" -> [t |-> "map", s |-> "", n |-> 0,
                          m |-> [k \in DOMAIN v.m |-> CborItem(v.m[k])]]

\* cbor2: the value of a data item; tag 0 is a datetime, a tag without a
\* decoder of its own stays a CBORTag
RECURSIVE CborValue(_)
CborValue(it) ==
    CASE it.t = "null" -> NoneV
      [] it.t = "tstr" -> Str(it.s)
      [] it.t = "bstr" -> [t |-> "bytes", s |-> it.s, n |-> 0, m |-> it.m]
      [] it.t = "uint" -> Num(it.s)
      [] it.t = "array" -> ListV
      [] it.t = "tagged" -> IF it.n = 0 THEN Dt(it.s) ELSE CBORTag(it.n, it.s)
      [] it.t = "map" -> Dict([k \in DOMAIN it.m |-> CborValue(it.m[k])])

\* bytes that hold one encoded data item
CborText == "<cbor>"
CborBytes(it) == [t |-> "bytes", s |-> CborText, n |-> 0, m |-> [root |-> it]]

\* _cbor_dumps: [err, v]
_cbor_dumps(v) ==
    IF Representable(v) THEN [err |-> "", v |-> CborBytes(CborItem(v))]
    ELSE [err |-> "CBOREncodeError", v |-> NoneV]

\* _cbor_loads: [err, v]
_cbor_loads(data) ==
    IF data.t = "bytes" /\ data.s = CborText
    THEN [err |-> "", v |-> CborValue(data.m["root"])]
    ELSE [err |-> "CBORDecodeError", v |-> NoneV]

\* to_cbor: [heap, ref, err, v], ref the dict it encoded
to_cbor(hp, e) ==
    LET d == to_dict(hp, e)
        h1 == _best_effort_decode_iso_formatted_time(d.heap, d.ref)
        h2 == _tag_well_known_uri_attributes(h1, d.ref)
        enc == _cbor_dumps(Dict(h2[d.ref]))
    IN [heap |-> h2, ref |-> d.ref, err |-> enc.err, v |-> enc.v]

\* a decoder that leaves the tags on: the fault C3_CborRoundTrip detects
value_with_cbor_tag(value) == value

\* _value_without_cbor_tag
_value_without_cbor_tag(value) ==
    IF value.t = "tag" THEN Str(value.s) ELSE value

\* _strip_attribute_cbor_tags
_strip_attribute_cbor_tags(d) == [k \in DOMAIN d |-> _value_without_cbor_tag(d[k])]

\* from_cbor
from_cbor(data) ==
    LET loaded == _cbor_loads(data)
    IN IF loaded.err # "" THEN Raised("from_cbor", loaded.err)
       ELSE IF loaded.v.t # "dict" THEN Raised("from_cbor", "AttributeError")
       ELSE [from_dict(_strip_attribute_cbor_tags(loaded.v.m)) EXCEPT !.op = "from_cbor"]

\* ------------------------------------------------------------ inputs

Registry == [v \in {"1.0", "0.3"} |-> IF v = "1.0" THEN "v1" ELSE "v03"]

Payloads ==
    {NoneV, Str(""), Str("abc"), Str("1"), Bytes(""), Bytes("abc"), Bytes("1"),
     Bytes(NonUtf8), Num("1"), Dict([k \in {"k"} |-> Num("1")])}

Required(version) ==
    [k \in {"specversion", "id", "source", "type"} |->
        CASE k = "specversion" -> Str(version)
          [] k = "id" -> Str("1")
          [] k = "source" -> Str("s")
          [] k = "type" -> Str("t")]

OptionalAttrs ==
    {g \in UNION {[d -> {Str("x")}] : d \in SUBSET {"ext", "Ext", "datacontenttype"}} :
        ~({"ext", "Ext"} \subseteq DOMAIN g)}

Events ==
    {[attrs |-> Update(Required(v), g), data |-> d] :
        v \in {"1.0", "0.3", "9.9"}, g \in OptionalAttrs, d \in Payloads}

NoEvent == [attrs |-> EmptyMap, data |-> NoneV]

NoRequest == [headers |-> EmptyMap, body |-> NoneV]

RawHeaders ==
    {Update(g, h) :
        g \in {EmptyMap} \cup {[k \in {n} |-> v] :
                  n \in {"ce-specversion"}, v \in {Str("1.0"), Str("0.3"), Str("9.9"), NoneV}}
               \cup {[k \in {"CE-SpecVersion"} |-> Str("1.0")]},
        h \in {EmptyMap, [k \in {"ce-id"} |-> Str("1")],
               [k \in {"ce-Ext", "Content-Type"} |-> Str("x")]}}

JsonObject(f) == [t |-> "str", s |-> ObjText, n |-> 0, m |-> f]

RawDocs ==
    {JsonObject(Update(a, d)) :
        a \in {EmptyMap} \cup {[k \in {"specversion"} |-> v] :
                  v \in {Str("1.0"), Str("9.9"), NoneV, ListV, Num("1")}},
        d \in {EmptyMap} \cup {[k \in {"data"} |-> v] : v \in {Str(""), Str("abc"), Num("1")}}
               \cup {[k \in {"data_base64"} |-> Str(b64encode(c))] : c \in {"", "abc"}}}

RawBodies ==
    {NoneV, Str(""), Str("abc"), Str("1"), Str(JsonQuote("")), Str("null"), Str("[]"),
     Bytes(""), Bytes("abc"), Bytes(NonUtf8), Num("1"), Dict(EmptyMap), ListV}
    \cup RawDocs

Unmarshallers == {"none", "identity"}

\* ------------------------------------------------------------ HTTP calls

NoObj == [ref |-> 0, data |-> NoneV]

NoItem == [err |-> "", v |-> NoneV]

\* no dict or CBOR call has been made
DictIdle ==
    /\ heap = EmptyMap
    /\ obj = NoObj
    /\ returned = 0
    /\ item = NoItem
    /\ before = NoEvent

\* no caller runs
ConcIdle ==
    /\ pc = EmptyMap
    /\ call = EmptyMap
    /\ href = EmptyMap
    /\ handlers = EmptyMap
    /\ outcome = EmptyMap

Init ==
    /\ _obj_by_version = Registry
    /\ event \in Events \cup {NoEvent}
    /\ sent = "none"
    /\ request = NoRequest
    /\ result = Raised("init", "")
    /\ DictIdle
    /\ ConcIdle

Encode(op, out) ==
    /\ request' = IF out.err = "" THEN [headers |-> out.headers, body |-> out.body]
                  ELSE NoRequest
    /\ sent' = IF out.err = "" THEN op ELSE "none"
    /\ result' = [Raised(op, out.err) EXCEPT !.attrs = out.headers, !.data = out.body]
    /\ UNCHANGED <<_obj_by_version, event, dictVars, concVars>>

ToStructured == Encode("to_structured", to_structured(event, "none"))

ToBinary == Encode("to_binary", to_binary(event, "none"))

ToJson == Encode("to_json", to_json(event, "none"))

\* a request arrives from elsewhere
Receive ==
    \E h \in RawHeaders, b \in RawBodies :
        /\ event = NoEvent
        /\ sent = "none"
        /\ request' = [headers |-> h, body |-> b]
        /\ sent' = "raw"
        /\ event' = event
        /\ result' = Raised("receive", "")
        /\ UNCHANGED <<_obj_by_version, dictVars, concVars>>

FromHttp ==
    \E u \in Unmarshallers :
        /\ sent # "none"
        /\ result' = [from_http(request.headers, request.body, u) EXCEPT !.unm = u]
        /\ UNCHANGED <<_obj_by_version, event, sent, request, dictVars, concVars>>

FromJson ==
    \E u \in Unmarshallers :
        /\ sent # "none"
        /\ result' = [from_json(request.body, u) EXCEPT !.unm = u]
        /\ UNCHANGED <<_obj_by_version, event, sent, request, dictVars, concVars>>

\* the caller keeps the event a decoding call returned
Adopt ==
    /\ result.created
    /\ sent = "raw"
    /\ event' = [attrs |-> result.attrs, data |-> result.data]
    /\ sent' = "none"
    /\ request' = NoRequest
    /\ result' = Raised("adopt", "")
    /\ UNCHANGED <<_obj_by_version, dictVars, concVars>>

Next == ToStructured \/ ToBinary \/ ToJson \/ Receive \/ FromHttp \/ FromJson \/ Adopt

Spec == Init /\ [][Next]_vars

\* ------------------------------------------------------------ dict and CBOR calls

DictPayloads ==
    {NoneV, Str("abc"), Bytes("abc"), Dict([k \in {"k"} |-> Num("1")]), CBORTag(32, "u")}

DictOptionalAttrs ==
    {Update(Update(a, b), c) :
        a \in {EmptyMap} \cup {[k \in {"time"} |-> v] :
                  v \in {Str(IsoT), Str(IsoSpace), Str("yesterday"), Dt(IsoT)}},
        b \in {EmptyMap, [k \in {"dataschema"} |-> Str("d")],
               [k \in {"source"} |-> CBORTag(32, "s")]},
        c \in {EmptyMap} \cup {[k \in {"ext"} |-> v] :
                  v \in {Str("x"), Num("1"), Dt(IsoT), EnumV("x"), CBORTag(99, "x")}}}

\* the attribute stores and payloads of the events of the dict and CBOR calls
DictEvents ==
    {[attrs |-> Update(Required("1.0"), g), data |-> d] :
        g \in DictOptionalAttrs, d \in DictPayloads}

RawDicts ==
    {EmptyMap} \cup
    {Update(Required("1.0"), g) :
        g \in UNION {[d -> {Str("x"), Dict([k \in {"a"} |-> Str("b")])}] :
                        d \in SUBSET {"extensions", "data"}}}

RawCbor ==
    {Bytes("abc"), CborBytes(CborItem(Num("1")))} \cup
    {CborBytes(CborItem(Dict(Update(Required("1.0"), g)))) :
        g \in {EmptyMap, [k \in {"source"} |-> CBORTag(32, "s")],
               [k \in {"ext"} |-> CBORTag(99, "x")],
               [k \in {"extensions"} |-> Str("x")],
               [k \in {"time"} |-> Dt(IsoT)]}}

\* the attributes and payload of the event object o
Content(hp, o) == [attrs |-> hp[o.ref], data |-> o.data]

\* the objects the caller still holds
Live(hp, refs) == [r \in DOMAIN hp \cap refs |-> hp[r]]

InitDict ==
    /\ _obj_by_version = Registry
    /\ sent = "none"
    /\ result = Raised("init", "")
    /\ event = NoEvent
    /\ request = NoRequest
    /\ \E e \in DictEvents \cup {NoEvent} :
        IF e = NoEvent
        THEN heap = EmptyMap /\ obj = NoObj /\ before = NoEvent
        ELSE /\ heap = [r \in {1} |-> e.attrs]
             /\ obj = [ref |-> 1, data |-> e.data]
             /\ before = e
    /\ returned = 0
    /\ item = NoItem
    /\ ConcIdle

ToDict ==
    /\ obj # NoObj
    /\ LET d == to_dict(Live(heap, {obj.ref}), obj)
       IN /\ heap' = d.heap
          /\ returned' = d.ref
    /\ before' = Content(heap, obj)
    /\ sent' = "to_dict"
    /\ result' = Raised("to_dict", "")
    /\ item' = NoItem
    /\ UNCHANGED <<_obj_by_version, obj, httpVars, concVars>>

ToCbor ==
    /\ obj # NoObj
    /\ LET c == to_cbor(Live(heap, {obj.ref}), obj)
       IN /\ heap' = Live(c.heap, {obj.ref})
          /\ item' = [err |-> c.err, v |-> c.v]
          /\ result' = Raised("to_cbor", c.err)
          /\ sent' = IF c.err = "" THEN "to_cbor" ELSE "none"
    /\ returned' = 0
    /\ before' = Content(heap, obj)
    /\ UNCHANGED <<_obj_by_version, obj, httpVars, concVars>>

\* the caller writes to the dict to_dict returned
CallerWrites ==
    /\ sent = "to_dict"
    /\ heap' = [heap EXCEPT ![returned] = Put(Pop(@, "type"), "id", Str("other"))]
    /\ sent' = "written"
    /\ result' = Raised("write", "")
    /\ UNCHANGED <<_obj_by_version, obj, returned, item, before, httpVars, concVars>>

\* a dict arrives from elsewhere
ReceiveDict ==
    \E d \in RawDicts :
        /\ obj = NoObj
        /\ sent = "none"
        /\ heap' = [r \in {1} |-> d]
        /\ returned' = 1
        /\ sent' = "raw"
        /\ result' = Raised("receive", "")
        /\ UNCHANGED <<_obj_by_version, obj, item, before, httpVars, concVars>>

\* a CBOR data item arrives from elsewhere
ReceiveCbor ==
    \E b \in RawCbor :
        /\ obj = NoObj
        /\ sent = "none"
        /\ item' = [err |-> "", v |-> b]
        /\ sent' = "raw"
        /\ result' = Raised("receive", "")
        /\ UNCHANGED <<_obj_by_version, obj, heap, returned, before, httpVars, concVars>>

FromDict ==
    /\ returned # 0
    /\ result' = from_dict(heap[returned])
    /\ UNCHANGED <<_obj_by_version, sent, dictVars, httpVars, concVars>>

FromCbor ==
    /\ item.v # NoneV
    /\ result' = from_cbor(item.v)
    /\ UNCHANGED <<_obj_by_version, sent, dictVars, httpVars, concVars>>

NextDict ==
    ToDict \/ ToCbor \/ CallerWrites \/ ReceiveDict \/ ReceiveCbor \/ FromDict \/ FromCbor

SpecDict == InitDict /\ [][NextDict]_vars

\* ------------------------------------------------------------ concurrent callers

NumProcs == 2
Procs == 1..NumProcs

ConcEvents ==
    {[attrs |-> Update(Required(v), g), data |-> d] :
        v \in {"1.0", "9.9"},
        g \in {[k \in {"ext"} |-> Str("x")]},
        d \in {Str("abc")}}
    \cup {[attrs |-> Required("0.3"), data |-> Bytes("abc")]}

ConcRequests ==
    {[headers |-> [k \in {"ce-specversion", "ce-id"} |-> Str("1.0")], body |-> Str("1")],
     [headers |-> EmptyMap,
      body |-> JsonObject(Put(Required("0.3"), "data", Str("abc")))],
     [headers |-> EmptyMap, body |-> Str("abc")]}

NoCall == [kind |-> "none", e |-> NoEvent, format |-> "", req |-> NoRequest]

Calls ==
    {[kind |-> "to_http", e |-> e, format |-> f, req |-> NoRequest] :
        e \in ConcEvents, f \in {"structured", "binary"}}
    \cup {[kind |-> "from_http", e |-> NoEvent, format |-> "", req |-> r] :
            r \in ConcRequests}
    \cup {[kind |-> "to_dict", e |-> e, format |-> "", req |-> NoRequest] :
            e \in {CHOOSE x \in ConcEvents : x.attrs["specversion"] = Str("1.0")}}
    \cup {[kind |-> "from_dict", e |-> e, format |-> "", req |-> NoRequest] :
            e \in {CHOOSE x \in ConcEvents : x.attrs["specversion"] = Str("0.3")}}

\* one handler object shared by every call: the fault C10_CallsAreIsolated detects
SharedHandlerRef(hs) == 1

\* event_handler(): the reference of the new object
FreshHandlerRef(hs) == CHOOSE r \in 1..(Cardinality(DOMAIN hs) + 1) : r \notin DOMAIN hs

\* the dict to_dict returns for an event held by value
DictOf(e) ==
    LET d == to_dict([r \in {1} |-> e.attrs], [ref |-> 1, data |-> e.data])
    IN d.heap[d.ref]

\* what a call returns when it runs alone
Alone(c) ==
    CASE c.kind = "to_http" -> _to_http(c.e, c.format, "none")
      [] c.kind = "from_http" -> from_http(c.req.headers, c.req.body, "none")
      [] c.kind = "to_dict" -> DictOf(c.e)
      [] c.kind = "from_dict" -> from_dict(DictOf(c.e))

InitConc ==
    /\ _obj_by_version = Registry
    /\ sent = "none"
    /\ result = Raised("init", "")
    /\ event = NoEvent
    /\ request = NoRequest
    /\ DictIdle
    /\ pc = [p \in Procs |-> "idle"]
    /\ call = [p \in Procs |-> NoCall]
    /\ href = [p \in Procs |-> 0]
    /\ handlers = EmptyMap
    /\ outcome = [p \in Procs |-> NoneV]

\* the error a call raises before it looks its handler type up, "" if none
Prologue(c) ==
    IF c.kind = "to_http" THEN ToHttpPrologue(c.e)
    ELSE FromHttpPrologue(c.req.headers, c.req.body).err

\* the handler type a call looks up
HandlerType(c) ==
    IF c.kind = "to_http" THEN _obj_by_version[c.e.attrs["specversion"].s]
    ELSE _obj_by_version[FromHttpPrologue(c.req.headers, c.req.body).version]

\* a caller enters a call; to_dict and from_dict return at once, _to_http and
\* from_http run up to the registry lookup
Begin(p) ==
    \E c \in Calls :
        /\ pc[p] = "idle"
        /\ call' = [call EXCEPT ![p] = c]
        /\ IF c.kind \in {"to_dict", "from_dict"}
           THEN /\ pc' = [pc EXCEPT ![p] = "done"]
                /\ outcome' = [outcome EXCEPT ![p] = Alone(c)]
           ELSE IF Prologue(c) # ""
           THEN /\ pc' = [pc EXCEPT ![p] = "done"]
                /\ outcome' = [outcome EXCEPT ![p] =
                      IF c.kind = "to_http" THEN Rendered(Prologue(c), EmptyMap, NoneV)
                      ELSE Raised("from_http", Prologue(c))]
           ELSE /\ pc' = [pc EXCEPT ![p] = "lookup"]
                /\ UNCHANGED outcome
        /\ UNCHANGED <<_obj_by_version, sent, result, httpVars, dictVars, href, handlers>>

\* _obj_by_version[...](): the caller instantiates its working handler
Instantiate(p) ==
    /\ pc[p] = "lookup"
    /\ LET ref == FreshHandlerRef(handlers)
       IN /\ handlers' = Put(handlers, ref, NewHandler(HandlerType(call[p])))
          /\ href' = [href EXCEPT ![p] = ref]
    /\ pc' = [pc EXCEPT ![p] = "fill"]
    /\ UNCHANGED <<_obj_by_version, sent, result, httpVars, dictVars, call, outcome>>

\* the caller fills its handler: _to_http copies the event into it,
\* from_http has the request decoded into it
Fill(p) ==
    /\ pc[p] = "fill"
    /\ handlers' = [handlers EXCEPT ![href[p]] =
          IF call[p].kind = "to_http" THEN CopyEvent(@, call[p].e)
          ELSE LET pr == FromHttpPrologue(call[p].req.headers, call[p].req.body)
               IN FromRequest(@, pr.headers, pr.body, UnmarshallerOf("none"))]
    /\ pc' = [pc EXCEPT ![p] = "emit"]
    /\ UNCHANGED <<_obj_by_version, sent, result, httpVars, dictVars, call, href, outcome>>

\* the caller reads its handler: _to_http renders it, from_http creates the
\* event; the handler is dropped
Emit(p) ==
    /\ pc[p] = "emit"
    /\ outcome' = [outcome EXCEPT ![p] =
          IF call[p].kind = "to_http"
          THEN ToHttpEpilogue(handlers[href[p]], call[p].format,
                              MarshallerOf(call[p].format, "none"))
          ELSE FromHttpEpilogue(handlers[href[p]])]
    /\ handlers' = [r \in DOMAIN handlers \ {href[p]} |-> handlers[r]]
    /\ href' = [href EXCEPT ![p] = 0]
    /\ pc' = [pc EXCEPT ![p] = "done"]
    /\ UNCHANGED <<_obj_by_version, sent, result, httpVars, dictVars, call>>

\* the call returns to the caller
Return(p) ==
    /\ pc[p] = "done"
    /\ pc' = [pc EXCEPT ![p] = "idle"]
    /\ call' = [call EXCEPT ![p] = NoCall]
    /\ outcome' = [outcome EXCEPT ![p] = NoneV]
    /\ UNCHANGED <<_obj_by_version, sent, result, httpVars, dictVars, href, handlers>>

NextConc ==
    \E p \in Procs : Begin(p) \/ Instantiate(p) \/ Fill(p) \/ Emit(p) \/ Return(p)

SpecConc == InitConc /\ [][NextConc]_vars

\* ------------------------------------------------------------ HTTP properties

\* an event of the data model: the required attributes, lower-case names, no
\* reserved key, string values
Conforming(e) ==
    /\ {"specversion", "id", "source", "type"} \subseteq DOMAIN e.attrs
    /\ \A k \in DOMAIN e.attrs :
        /\ k \notin {"data", "extensions"}
        /\ Lower("ce-" \o k) = "ce-" \o k
        /\ e.attrs[k].t = "str"

\* CloudEvent.__eq__ between the event a call created and e
SameEvent(r, e) == r.created /\ r.data = e.data /\ r.attrs = e.attrs

\* from_http with the default unmarshaller has decoded what to_structured or
\* to_binary rendered from a conforming event of a supported version
HttpRoundTrip ==
    /\ result.op = "from_http"
    /\ result.unm = "none"
    /\ sent \in {"to_structured", "to_binary"}
    /\ Conforming(event)

\* the payload is neither empty text nor bytes that read as a JSON document
Survives(data) ==
    /\ data \notin {Str(""), Bytes("")}
    /\ ~(data.t = "bytes" /\ json_loads(data).err = "")

Unestablished(req) ==
    LET body == NormalizeBody(req.body)
        hdrs == LowerKeys(req.headers)
    IN /\ IsTextOrBytes(body)
       /\ IF is_binary(hdrs) THEN hdrs["ce-specversion"] = NoneV
          ELSE \/ json_loads(body).err # ""
               \/ json_loads(body).v.t # "dict"
               \/ Get(json_loads(body).v.m, "specversion", NoneV) = NoneV

\* C4: from_http fails with MissingRequiredFields, and does not call create,
\* whenever the specversion cannot be established: the body of a structured
\* request is not JSON, is not a map or has no specversion, or the header of a
\* binary request yields nothing.
C4_MissingRequiredFields ==
    (result.op = "from_http" /\ Unestablished(request))
        => (result.err = "MissingRequiredFields" /\ ~result.created)

\* the specversion the request carries, None when absent
Carried(req) ==
    LET body == NormalizeBody(req.body)
        hdrs == LowerKeys(req.headers)
    IN IF is_binary(hdrs) THEN hdrs["ce-specversion"]
       ELSE IF json_loads(body).err = "" /\ json_loads(body).v.t = "dict"
            THEN Get(json_loads(body).v.m, "specversion", NoneV)
       ELSE NoneV

Unrecognized(v) == v # NoneV /\ ~(v.t = "str" /\ v.s \in {"1.0", "0.3"})

\* C5: a specversion that is present and is no key of the registry is rejected
\* with InvalidRequiredFields, by from_http (from the headers or from the body)
\* and by to_structured / to_binary / to_json, which then return nothing.
C5_InvalidRequiredFields ==
    /\ (/\ result.op = "from_http"
        /\ IsTextOrBytes(NormalizeBody(request.body))
        /\ Unrecognized(Carried(request)))
           => (result.err = "InvalidRequiredFields" /\ ~result.created)
    /\ (/\ result.op \in {"to_structured", "to_binary", "to_json"}
        /\ Has(event.attrs, "specversion")
        /\ Unrecognized(event.attrs["specversion"]))
           => (result.err = "InvalidRequiredFields" /\ request = NoRequest)

\* C6: from_http raises InvalidStructuredJSON for every body that is not str
\* or bytes, whatever the headers; a None, "" or b"" body is not such an error
\* and is processed as the body "".
C6_BodyType ==
    result.op = "from_http" =>
        /\ request.body.t \notin {"none", "str", "bytes"}
               => (result.err = "InvalidStructuredJSON" /\ ~result.created)
        /\ request.body \in {NoneV, Str(""), Bytes("")}
               => /\ result.err # "InvalidStructuredJSON"
                  /\ result = [from_http(request.headers, Str(""), result.unm)
                                  EXCEPT !.unm = result.unm]

C6_Witness ==
    /\ result.op = "from_http"
    /\ request.body = Num("1")
    /\ Has(request.headers, "ce-specversion")
    /\ result.err = "InvalidStructuredJSON"

\* C8: the payload from_http hands to create is never "" or b"": an empty
\* decoded payload becomes None (so a None, "" or b"" body gives data None),
\* any other decoded payload is handed over as it is.
C8_EmptyPayloadIsNone ==
    (result.op = "from_http" /\ result.created) =>
        /\ result.data \notin {Str(""), Bytes("")}
        /\ request.body \in {NoneV, Str(""), Bytes("")} => result.data = NoneV
        /\ result.decoded \notin {Str(""), Bytes("")} => result.data = result.decoded

C8_Witness ==
    /\ result.op = "from_http"
    /\ result.created
    /\ result.decoded = Bytes("")
    /\ result.data = NoneV

\* ------------------------------------------------------------ dict and CBOR properties

\* the attribute values are what best_effort_encode_attribute_value leaves
\* alone on the way in, and no attribute has the reserved name "data"
WireSafe(e) ==
    /\ "data" \notin DOMAIN e.attrs
    /\ \A k \in DOMAIN e.attrs : e.attrs[k].t \notin {"enum", "datetime"}

CborRoundTrip == result.op = "from_cbor" /\ sent = "to_cbor"

Instant(v) ==
    IF v.t = "datetime" THEN Dt(v.s)
    ELSE IF v.t = "str" /\ IsIso(v.s) THEN fromisoformat(v.s)
    ELSE v

C7_SourceUnchanged ==
    obj # NoObj =>
        /\ Content(heap, obj) = before
        /\ sent = "to_dict" =>
            /\ returned # obj.ref
            /\ heap[returned] = Put(before.attrs, "data", before.data)

C7_Witness ==
    /\ result.op = "to_cbor"
    /\ sent = "to_cbor"
    /\ Has(heap[obj.ref], "time")
    /\ heap[obj.ref]["time"] = Str(IsoT)
    /\ item.v.m["root"].m["time"].t = "tagged"
    /\ item.v.m["root"].m["source"].n = 32
    /\ Content(heap, obj) = before

\* C9: the attributes of an event a decoding call creates never hold the
\* reserved keys "data" and "extensions".
C9_NoReservedKeys ==
    (result.op \in {"from_dict", "from_cbor", "from_http", "from_json"} /\ result.created)
        => DOMAIN result.attrs \cap {"data", "extensions"} = {}

\* ------------------------------------------------------------ concurrency properties

\* C10: under any interleaving of conversion calls the registry keeps its
\* initial contents, no two callers hold the same working handler, and every
\* call returns what it returns when it runs alone.
C10_CallsAreIsolated ==
    /\ _obj_by_version = Registry
    /\ \A p, q \in DOMAIN pc :
        (p # q /\ href[p] # 0 /\ href[q] # 0) => href[p] # href[q]
    /\ \A p \in DOMAIN pc : href[p] # 0 => href[p] \in DOMAIN handlers
    /\ \A p \in DOMAIN pc : pc[p] = "done" => outcome[p] = Alone(call[p])

C10_Witness ==
    /\ Cardinality(DOMAIN pc) > 1
    /\ \E p, q \in DOMAIN pc :
        /\ p # q
        /\ pc[p] = "done"
        /\ call[p].kind = "to_http"
        /\ outcome[p].err = ""
        /\ pc[q] = "emit"
        /\ call[q].kind = "from_http"

====
